---- MODULE Spec2Model ----
(***************************************************************************)
(* Model of the resume ranking service                                     *)
(* (src/src/services/resume_ranking_service.py).                           *)
(*                                                                         *)
(* A Python str is a sequence of one-character strings.  A value that may  *)
(* be None is a record [kind, chars].  A float score is an exact rational  *)
(* [n, d] with d > 0, so that thresholds and the weighted sum are compared *)
(* without rounding.                                                       *)
(***************************************************************************)
EXTENDS Integers, Sequences, FiniteSets, TLC

VARIABLES job_description, keyword_list, pc, op, resume_text, scores_arg, result,
          callers, resume_content, environment, main,
          generator

vars == <<job_description, keyword_list, pc, op, resume_text, scores_arg, result,
          callers, resume_content, environment, main,
          generator>>

(***************************************************************************)
(* Bounds of the model.                                                    *)
(***************************************************************************)
MaxJdPieces == 2
MaxPieces == 2
MaxFmtPieces == 3

(***************************************************************************)
(* Characters and Python's str methods.                                    *)
(***************************************************************************)
UpperCase == <<"A","B","C","D","E","F","G","H","I","J","K","L","M",
               "N","O","P","Q","R","S","T","U","V","W","X","Y","Z">>

LowerCase == <<"a","b","c","d","e","f","g","h","i","j","k","l","m",
               "n","o","p","q","r","s","t","u","v","w","x","y","z">>

Digits == {"0","1","2","3","4","5","6","7","8","9"}

\* string.punctuation (without the backquote, which a TLA+ string cannot hold
\* and which no input of the model contains)
Punctuation == {"!", "\"", "#", "$", "%", "&", "'", "(", ")", "*", "+", ",",
                "-", ".", "/", ":", ";", "<", "=", ">", "?", "@", "[", "\\",
                "]", "^", "_", "{", "|", "}", "~"}

\* the characters str.split() with no argument splits on
Whitespace == {" ", "\t", "\n", "\r", "\f"}

\* the characters the regular expression class \w matches
WordChars == {UpperCase[i] : i \in 1..26} \cup {LowerCase[i] : i \in 1..26}
             \cup Digits \cup {"_"}

Min(S) == CHOOSE x \in S : \A y \in S : x <= y

Max(S) == CHOOSE x \in S : \A y \in S : x >= y

LowerChar(c) ==
    IF \E i \in 1..26 : UpperCase[i] = c
    THEN LowerCase[CHOOSE i \in 1..26 : UpperCase[i] = c]
    ELSE c

\* str.lower()
Lower(s) == [i \in 1..Len(s) |-> LowerChar(s[i])]

\* the first index from i on whose character is in C (is not in C, when
\* inside is FALSE), or Len(s) + 1 when there is none
FirstFrom(s, i, C, inside) ==
    CHOOSE j \in i..(Len(s) + 1) :
        /\ j = Len(s) + 1 \/ ((s[j] \in C) = inside)
        /\ \A k \in i..(j - 1) : (s[k] \in C) # inside

RECURSIVE SplitFrom(_, _)
SplitFrom(s, i) ==
    LET first == FirstFrom(s, i, Whitespace, FALSE)
        stop == FirstFrom(s, first, Whitespace, TRUE)
    IN  IF first > Len(s)
        THEN <<>>
        ELSE <<SubSeq(s, first, stop - 1)>> \o SplitFrom(s, stop)

\* str.split(): the maximal runs of non-whitespace characters, in order
Split(s) == SplitFrom(s, 1)

\* str.strip(string.punctuation)
Strip(w) ==
    LET keep == {i \in 1..Len(w) : w[i] \notin Punctuation}
    IN  IF keep = {} THEN <<>> ELSE SubSeq(w, Min(keep), Max(keep))

\* the Python operator (sub in s) on two str
Contains(s, sub) ==
    \E i \in 1..(Len(s) - Len(sub) + 1) : SubSeq(s, i, i + Len(sub) - 1) = sub

\* the Python operator (x in list)
InList(x, l) == \E i \in 1..Len(l) : l[i] = x

\* Python values that may be None
None == [kind |-> "None", chars |-> <<>>]

Str(s) == [kind |-> "str", chars |-> s]

\* the Python ints 0 and 5, values that are neither a str nor None
PyInt0 == [kind |-> "int", chars |-> <<"0">>]

PyInt5 == [kind |-> "int", chars |-> <<"5">>]

\* a value without the str methods lower and split
NotStr(v) == v.kind # "str"

\* Python truthiness: None, "" and 0 are false
Truthy(v) ==
    \/ v.kind = "str" /\ v.chars # <<>>
    \/ v.kind = "int" /\ v # PyInt0

(***************************************************************************)
(* Exact rationals for Python's float scores: [n, d] in lowest terms, d>0. *)
(***************************************************************************)
RECURSIVE GCD(_, _)
GCD(a, b) == IF b = 0 THEN a ELSE GCD(b, a % b)

Rat(n, d) ==
    LET g == GCD(IF n < 0 THEN -n ELSE n, d)
    IN  [n |-> n \div g, d |-> d \div g]

RatAdd(a, b) == Rat(a.n * b.d + b.n * a.d, a.d * b.d)

RatScale(k, a) == Rat(k * a.n, a.d)

RatDiv(a, k) == Rat(a.n, a.d * k)

\* a < k and a >= k for an integer k
RatLT(a, k) == a.n < k * a.d

RatGE(a, k) == a.n >= k * a.d

RECURSIVE ISqrtBetween(_, _, _)
ISqrtBetween(x, lo, hi) ==
    IF hi - lo <= 1
    THEN lo
    ELSE LET mid == (lo + hi) \div 2
         IN  IF mid * mid <= x
             THEN ISqrtBetween(x, mid, hi)
             ELSE ISqrtBetween(x, lo, mid)

\* floor of the square root of x, for 0 <= x < 2^31
ISqrt(x) == ISqrtBetween(x, 0, 46341)

RECURSIVE SumOver(_, _)
SumOver(S, f) ==
    IF S = {}
    THEN 0
    ELSE LET x == CHOOSE y \in S : TRUE
         IN  f[x] + SumOver(S \ {x}, f)

(***************************************************************************)
(* ResumeRankingService: the pure part of each method.                     *)
(***************************************************************************)
\* extract_keywords (lines 22-36): the length filter reads the word before
\* it is stripped
extract_keywords(text) ==
    IF ~Truthy(text)
    THEN <<>>
    ELSE LET words == Split(Lower(text.chars))
             kept == SelectSeq(words, LAMBDA word : Len(word) > 2)
         IN  [i \in 1..Len(kept) |-> Strip(kept[i])]

\* match_count weighted by how often the word is in the keyword list
match_count_weighted(kl, text) ==
    LET resume_words == Split(Lower(text.chars))
    IN  Cardinality({ij \in (1..Len(resume_words)) \X (1..Len(kl)) :
                        resume_words[ij[1]] = kl[ij[2]]})

\* the number of candidate words that are members of the keyword list
match_count(kl, text) ==
    LET resume_words == Split(Lower(text.chars))
    IN  Cardinality({i \in 1..Len(resume_words) : InList(resume_words[i], kl)})

\* score_keyword_relevance answering the neutral 50 when it has no keywords
score_keyword_relevance_neutral(kl, text) ==
    IF kl = <<>>
    THEN Rat(50, 1)
    ELSE Rat(match_count(kl, text) * 100, Len(kl))

\* score_keyword_relevance with the result cut off at 100
score_keyword_relevance_clamped(kl, text) ==
    IF kl = <<>>
    THEN Rat(0, 1)
    ELSE LET score == Rat(match_count(kl, text) * 100, Len(kl))
         IN  IF RatGE(score, 100) THEN Rat(100, 1) ELSE score

\* score_keyword_relevance (lines 38-54)
score_keyword_relevance(kl, text) ==
    IF kl = <<>>
    THEN Rat(0, 1)
    ELSE Rat(match_count(kl, text) * 100, Len(kl))

sections == << <<"e","x","p","e","r","i","e","n","c","e">>,
               <<"e","d","u","c","a","t","i","o","n">>,
               <<"s","k","i","l","l","s">>,
               <<"p","r","o","j","e","c","t","s">> >>

\* evaluate_formatting searching the text as written, not lowercased
evaluate_formatting_cased(text) ==
    LET formatting_score ==
            Cardinality({i \in 1..Len(sections) : Contains(text.chars, sections[i])})
    IN  Rat(formatting_score * 100, Len(sections))

\* evaluate_formatting (lines 56-70)
evaluate_formatting(text) ==
    LET low == Lower(text.chars)
        formatting_score ==
            Cardinality({i \in 1..Len(sections) : Contains(low, sections[i])})
        total_possible == Len(sections)
    IN  Rat(formatting_score * 100, total_possible)

(***************************************************************************)
(* TfidfVectorizer().fit_transform and cosine_similarity (lines 83-87),    *)
(* with scikit-learn's defaults: lowercase, tokens are the maximal runs of *)
(* two or more \w characters, raw term counts, smoothed idf                *)
(* ln((1+n)/(1+df)) + 1 over the n = 2 documents, rows normalised to       *)
(* length 1 (a zero row stays zero), an empty vocabulary raises            *)
(* ValueError.                                                             *)
(***************************************************************************)
RECURSIVE TokensFrom(_, _)
TokensFrom(s, i) ==
    LET first == FirstFrom(s, i, WordChars, TRUE)
        stop == FirstFrom(s, first, WordChars, FALSE)
    IN  IF first > Len(s)
        THEN <<>>
        ELSE IF stop - first >= 2
             THEN <<SubSeq(s, first, stop - 1)>> \o TokensFrom(s, stop)
             ELSE TokensFrom(s, stop)

tfidf_tokens(s) == TokensFrom(Lower(s), 1)

\* the raw count of term t in a token list
term_count(t, toks) == Cardinality({i \in 1..Len(toks) : toks[i] = t})

\* The idf of a term of both documents is 1; the idf of a term of one document
\* is 1 + ln(3/2) = 1.405465..., whose square 1.975332... is taken as
\* IdfSqNum / IdfSqDen = 1.975.
IdfSqNum == 79

IdfSqDen == 40

\* the dot product of the raw count rows, with no division by their lengths
cosine_percent_unnormalised(tc, tj) ==
    LET vocab == {tc[i] : i \in 1..Len(tc)} \cup {tj[i] : i \in 1..Len(tj)}
    IN  Rat(100 * SumOver(vocab, [t \in vocab |->
                                     term_count(t, tc) * term_count(t, tj)]), 1)

\* 100 * cosine of the two tf-idf rows, as a rational.  With S the dot product
\* and A, B the squared lengths of the rows (all three times IdfSqDen), the
\* cosine is S / sqrt(A * B); the square root is taken to 1/8 of a unit.
cosine_percent(tc, tj) ==
    LET vocab == {tc[i] : i \in 1..Len(tc)} \cup {tj[i] : i \in 1..Len(tj)}
        both == {t \in vocab : term_count(t, tc) > 0 /\ term_count(t, tj) > 0}
        sq(toks) == [t \in vocab |->
                        (IF t \in both THEN IdfSqDen ELSE IdfSqNum)
                        * term_count(t, toks) * term_count(t, toks)]
        S == IdfSqDen * SumOver(both, [t \in vocab |->
                                    term_count(t, tc) * term_count(t, tj)])
        A == SumOver(vocab, sq(tc))
        B == SumOver(vocab, sq(tj))
    IN  IF A = 0 \/ B = 0 \/ S = 0
        THEN Rat(0, 1)
        ELSE Rat(100 * S * 8, ISqrt(A * B * 64))

\* evaluate_content_quality without the guard on a missing job description:
\* the vectorizer is handed None
evaluate_content_quality_unguarded(jd, text) ==
    IF jd.kind = "None"
    THEN [raised |-> "AttributeError", value |-> Rat(0, 1)]
    ELSE LET tc == tfidf_tokens(text.chars)
             tj == tfidf_tokens(jd.chars)
         IN  IF tc = <<>> /\ tj = <<>>
             THEN [raised |-> "ValueError", value |-> Rat(0, 1)]
             ELSE [raised |-> "none", value |-> cosine_percent(tc, tj)]

\* evaluate_content_quality with the guard of line 79 testing for None only
evaluate_content_quality_none_only(jd, text) ==
    IF jd.kind = "None"
    THEN [raised |-> "none", value |-> Rat(50, 1)]
    ELSE LET tc == tfidf_tokens(text.chars)
             tj == tfidf_tokens(jd.chars)
         IN  IF tc = <<>> /\ tj = <<>>
             THEN [raised |-> "ValueError", value |-> Rat(0, 1)]
             ELSE [raised |-> "none", value |-> cosine_percent(tc, tj)]

\* evaluate_content_quality (lines 72-89): [raised, value]
evaluate_content_quality(jd, text) ==
    IF ~Truthy(jd)
    THEN [raised |-> "none", value |-> Rat(50, 1)]
    ELSE LET tc == tfidf_tokens(text.chars)
             tj == tfidf_tokens(jd.chars)
         IN  IF tc = <<>> /\ tj = <<>>
             THEN [raised |-> "ValueError", value |-> Rat(0, 1)]
             ELSE [raised |-> "none", value |-> cosine_percent(tc, tj)]

MetricKeys == {"keyword_relevance", "formatting", "content_quality"}

FeedbackText ==
    [keyword_relevance |->
        "Consider including more keywords from the job description to improve relevance.",
     formatting |->
        "Improve the resume formatting by ensuring clear sections like 'Experience' and 'Education'.",
     content_quality |->
        "Work on improving the overall clarity and relevance of your resume content.",
     overall |->
        "Your resume is well-structured and relevant to the job description."]

\* generate_feedback with <= in place of < in the three comparisons
generate_feedback_inclusive(scores) ==
    LET le(a, k) == a.n <= k * a.d
        low == {k \in MetricKeys :
                   \/ k = "keyword_relevance" /\ le(scores.keyword_relevance, 70)
                   \/ k = "formatting" /\ le(scores.formatting, 80)
                   \/ k = "content_quality" /\ le(scores.content_quality, 75)}
        keys == IF low = {} THEN {"overall"} ELSE low
    IN  [k \in keys |-> FeedbackText[k]]

\* generate_feedback without the fallback of lines 138-139
generate_feedback_no_fallback(scores) ==
    LET low == {k \in MetricKeys :
                   \/ k = "keyword_relevance" /\ RatLT(scores.keyword_relevance, 70)
                   \/ k = "formatting" /\ RatLT(scores.formatting, 80)
                   \/ k = "content_quality" /\ RatLT(scores.content_quality, 75)}
    IN  [k \in low |-> FeedbackText[k]]

\* generate_feedback (lines 120-141): the dict, as a function on its keys
generate_feedback(scores) ==
    LET low == {k \in MetricKeys :
                   \/ k = "keyword_relevance" /\ RatLT(scores.keyword_relevance, 70)
                   \/ k = "formatting" /\ RatLT(scores.formatting, 80)
                   \/ k = "content_quality" /\ RatLT(scores.content_quality, 75)}
        keys == IF low = {} THEN {"overall"} ELSE low
    IN  [k \in keys |-> FeedbackText[k]]

\* rank_resume with the weighted sum cut off at 100
overall_of_clamped(scores) ==
    LET total == RatAdd(RatAdd(RatDiv(RatScale(4, scores.keyword_relevance), 10),
                               RatDiv(RatScale(3, scores.formatting), 10)),
                        RatDiv(RatScale(3, scores.content_quality), 10))
    IN  IF RatGE(total, 100) THEN Rat(100, 1) ELSE total

\* the weighted sum of rank_resume (lines 105-107)
overall_of(scores) ==
    RatAdd(RatAdd(RatDiv(RatScale(4, scores.keyword_relevance), 10),
                  RatDiv(RatScale(3, scores.formatting), 10)),
           RatDiv(RatScale(3, scores.content_quality), 10))

NoScores ==
    [keyword_relevance |-> Rat(0, 1), formatting |-> Rat(0, 1),
     content_quality |-> Rat(0, 1)]

NoResult ==
    [raised |-> "none", value |-> Rat(0, 1), keywords |-> <<>>,
     scores |-> NoScores, overall_score |-> Rat(0, 1), feedback |-> <<>>]

\* rank_resume (lines 91-118): an exception of a metric leaves no result
rank_resume(jd, kl, text) ==
    LET cq == evaluate_content_quality(jd, text)
        scores == [keyword_relevance |-> score_keyword_relevance(kl, text),
                   formatting |-> evaluate_formatting(text),
                   content_quality |-> cq.value]
    IN  IF NotStr(text)
        THEN \* resume_text.lower() of line 49 or, with no keywords, of line 65
             [NoResult EXCEPT !.raised = "AttributeError"]
        ELSE IF cq.raised # "none"
        THEN [NoResult EXCEPT !.raised = cq.raised]
        ELSE [NoResult EXCEPT !.scores = scores,
                              !.overall_score = overall_of(scores),
                              !.feedback = generate_feedback(scores)]

(***************************************************************************)
(* The texts the calls are made with: concatenations of a few fragments.   *)
(***************************************************************************)
w_python == <<"p","y","t","h","o","n">>

w_java == <<"j","a","v","a">>

w_Experience == <<"E","x","p","e","r","i","e","n","c","e">>

\* "python "
f_python == w_python \o <<" ">>

\* "Python, "
f_PythonComma == <<"P","y","t","h","o","n",",", " ">>

\* "java" and a tab
f_java == w_java \o <<"\t">>

\* "Experience education skills projects" and a newline
f_sections ==
    w_Experience \o <<" ">> \o sections[2] \o <<" ">> \o sections[3]
    \o <<" ">> \o sections[4] \o <<"\n">>

\* "Python, python "
f_PythonCommaPython == f_PythonComma \o f_python

\* "ab, ... "
f_odd == <<"a","b",","," ",".",".","."," ">>

\* "a. "
f_aDot == <<"a","."," ">>

JdFragments == {f_python, f_PythonComma, f_sections, f_odd, f_aDot}

CandFragments == {f_python, f_PythonCommaPython, f_java, f_sections, f_aDot}

\* "Experience", "educ", "ation", "skills PROJECTS", "experienceducation"
FmtFragments ==
    {w_Experience, SubSeq(sections[2], 1, 4), SubSeq(sections[2], 5, 9),
     sections[3] \o <<" ","P","R","O","J","E","C","T","S">>,
     sections[1] \o SubSeq(sections[2], 2, 9)}

RECURSIVE Concats(_, _)
Concats(F, k) ==
    IF k = 0
    THEN {<<>>}
    ELSE LET shorter == Concats(F, k - 1)
         IN  shorter \cup {p \o f : p \in shorter, f \in F}

JobDescriptions == {None} \cup {Str(s) : s \in Concats(JdFragments, MaxJdPieces)}

ResumeTexts == {Str(s) : s \in Concats(CandFragments, MaxPieces)}

FormatTexts == {Str(s) : s \in Concats(FmtFragments, MaxFmtPieces)}

\* the scores generate_feedback is called with directly: around each threshold
FeedbackScores ==
    [keyword_relevance : {Rat(0, 1), Rat(699, 10), Rat(70, 1), Rat(701, 10), Rat(150, 1)},
     formatting : {Rat(75, 1), Rat(799, 10), Rat(80, 1), Rat(100, 1)},
     content_quality : {Rat(50, 1), Rat(749, 10), Rat(75, 1), Rat(100, 1)}]

(***************************************************************************)
(* The service instance and one caller.                                    *)
(***************************************************************************)
\* The argument of score_resume when no call of it is open.  A resume_content
\* is held as its first characters (head) followed by filler copies of "z ":
\* a text of several hundred words without a sequence of that length.
NoContent == [head |-> <<>>, filler |-> 0]

\* main has not been started: nothing is read from the environment
NoFile ==
    [kind |-> "missing", fields |-> {}, email |-> FALSE, phone |-> FALSE,
     experience |-> FALSE, graduation |-> FALSE]

NoEnvironment == [file |-> NoFile, api_key |-> None, template_dir |-> FALSE]

MainNotRun == [pc |-> "not run", exception |-> "none", ranked |-> FALSE,
               logged |-> "none"]

\* no ResumeGenerator has been constructed
NoUserInput == [personal_information |-> {}, education |-> {}]

NoGenerator ==
    [pc |-> "none", user_input |-> NoUserInput, parsed_data |-> "None",
     final_resume |-> "None", via |-> "none", steps |-> <<>>,
     raised |-> "none", raised_in |-> "none", exporter_called |-> FALSE]

\* The threads that call rank_resume of the one instance at the same time:
\* each holds its own resume_text, scores and result (the locals of lines
\* 91-118), and none has called yet.
MaxCallers == 2

Callers == 1 .. MaxCallers

IdleCaller ==
    [pc |-> "idle", text |-> None, done |-> {}, scores |-> NoScores,
     result |-> NoResult]

IdleCallers == [c \in Callers |-> IdleCaller]

\* __init__ (lines 13-20)
Init ==
    /\ job_description \in JobDescriptions
    /\ keyword_list =
           IF Truthy(job_description) THEN extract_keywords(job_description) ELSE <<>>
    /\ pc = "idle"
    /\ op = "none"
    /\ resume_text = None
    /\ scores_arg = NoScores
    /\ callers = IdleCallers
    /\ resume_content = NoContent
    /\ environment = NoEnvironment
    /\ main = MainNotRun
    /\ generator = NoGenerator
    /\ result = NoResult

\* a call of extract_keywords(text); resume_text holds the argument
ExtractKeywords(text) ==
    /\ pc = "idle"
    /\ pc' = "returned"
    /\ op' = "extract_keywords"
    /\ resume_text' = text
    /\ result' = IF Truthy(text) /\ NotStr(text)
                  THEN [NoResult EXCEPT !.raised = "AttributeError"]
                  ELSE [NoResult EXCEPT !.keywords = extract_keywords(text)]
    /\ UNCHANGED <<generator, callers, resume_content, environment, main, job_description, keyword_list, scores_arg>>

ScoreKeywordRelevance(text) ==
    /\ pc = "idle"
    /\ pc' = "returned"
    /\ op' = "score_keyword_relevance"
    /\ resume_text' = text
    /\ result' = IF keyword_list # <<>> /\ NotStr(text)
                  THEN [NoResult EXCEPT !.raised = "AttributeError"]
                  ELSE [NoResult EXCEPT
                           !.value = score_keyword_relevance(keyword_list, text)]
    /\ UNCHANGED <<generator, callers, resume_content, environment, main, job_description, keyword_list, scores_arg>>

EvaluateFormatting(text) ==
    /\ pc = "idle"
    /\ pc' = "returned"
    /\ op' = "evaluate_formatting"
    /\ resume_text' = text
    /\ result' = IF NotStr(text)
                  THEN [NoResult EXCEPT !.raised = "AttributeError"]
                  ELSE [NoResult EXCEPT !.value = evaluate_formatting(text)]
    /\ UNCHANGED <<generator, callers, resume_content, environment, main, job_description, keyword_list, scores_arg>>

EvaluateContentQuality(text) ==
    /\ pc = "idle"
    /\ pc' = "returned"
    /\ op' = "evaluate_content_quality"
    /\ resume_text' = text
    /\ LET cq == evaluate_content_quality(job_description, text)
       IN  result' = IF Truthy(job_description) /\ NotStr(text)
                     THEN \* the vectorizer calls lower() on the document
                          [NoResult EXCEPT !.raised = "AttributeError"]
                     ELSE [NoResult EXCEPT !.raised = cq.raised, !.value = cq.value]
    /\ UNCHANGED <<generator, callers, resume_content, environment, main, job_description, keyword_list, scores_arg>>

GenerateFeedback(scores) ==
    /\ pc = "idle"
    /\ pc' = "returned"
    /\ op' = "generate_feedback"
    /\ scores_arg' = scores
    /\ result' = [NoResult EXCEPT !.feedback = generate_feedback(scores)]
    /\ UNCHANGED <<generator, callers, resume_content, environment, main, job_description, keyword_list, resume_text>>

\* rank_resume keeping the words of the last resume in self.keyword_list
RankResumeCaching(text) ==
    /\ pc = "idle"
    /\ pc' = "returned"
    /\ op' = "rank_resume"
    /\ resume_text' = text
    /\ result' = rank_resume(job_description, keyword_list, text)
    /\ keyword_list' = IF NotStr(text) THEN keyword_list ELSE Split(Lower(text.chars))
    /\ UNCHANGED <<generator, callers, resume_content, environment, main, job_description, scores_arg>>

RankResume(text) ==
    /\ pc = "idle"
    /\ pc' = "returned"
    /\ op' = "rank_resume"
    /\ resume_text' = text
    /\ result' = rank_resume(job_description, keyword_list, text)
    /\ UNCHANGED <<generator, callers, resume_content, environment, main, job_description, keyword_list, scores_arg>>

\* the caller takes the result (or the exception); the instance is ready for
\* the next call
Return ==
    /\ pc = "returned"
    /\ pc' = "idle"
    /\ op' = "none"
    /\ resume_text' = None
    /\ scores_arg' = NoScores
    /\ result' = NoResult
    /\ resume_content' = NoContent
    /\ UNCHANGED <<generator, callers, environment, main, job_description, keyword_list>>

Next ==
    \/ \E text \in JobDescriptions : ExtractKeywords(text)
    \/ \E text \in ResumeTexts : ScoreKeywordRelevance(text)
    \/ \E text \in ResumeTexts : EvaluateFormatting(text)
    \/ \E text \in ResumeTexts : EvaluateContentQuality(text)
    \/ \E text \in ResumeTexts : RankResume(text)
    \/ \E scores \in FeedbackScores : GenerateFeedback(scores)
    \/ Return

Spec == Init /\ [][Next]_vars

\* An instance constructed as main does (line 67 of main.py), without a job
\* description, and a caller of evaluate_formatting alone, which reads nothing
\* of the instance.
InitNoReference == Init /\ job_description = None

NextFormatting ==
    \/ \E text \in FormatTexts : EvaluateFormatting(text)
    \/ Return

SpecFormatting == InitNoReference /\ [][NextFormatting]_vars

\* Callers that also pass values that are not strings.  A job description that
\* is true and has no lower() makes __init__ raise at line 20 (through line
\* 33): no instance is returned.
AnyJobDescriptions == {None, PyInt0, PyInt5, Str(<<>>), Str(f_python), Str(f_aDot)}

AnyTexts == {None, PyInt0, PyInt5, Str(<<>>), Str(f_python), Str(f_aDot)}

InitAnyInput ==
    /\ job_description \in AnyJobDescriptions
    /\ keyword_list =
           IF Truthy(job_description) /\ ~NotStr(job_description)
           THEN extract_keywords(job_description)
           ELSE <<>>
    /\ pc = IF Truthy(job_description) /\ NotStr(job_description) THEN "failed" ELSE "idle"
    /\ op = "none"
    /\ resume_text = None
    /\ scores_arg = NoScores
    /\ callers = IdleCallers
    /\ resume_content = NoContent
    /\ environment = NoEnvironment
    /\ main = MainNotRun
    /\ generator = NoGenerator
    /\ result = IF Truthy(job_description) /\ NotStr(job_description)
                THEN [NoResult EXCEPT !.raised = "AttributeError"]
                ELSE NoResult

NextAnyInput ==
    \/ \E text \in AnyTexts : ExtractKeywords(text)
    \/ \E text \in AnyTexts : ScoreKeywordRelevance(text)
    \/ \E text \in AnyTexts : EvaluateFormatting(text)
    \/ \E text \in AnyTexts : EvaluateContentQuality(text)
    \/ \E text \in AnyTexts : RankResume(text)
    \/ Return

SpecAnyInput == InitAnyInput /\ [][NextAnyInput]_vars

(***************************************************************************)
(* Several callers of rank_resume on one instance.  A step of a caller is  *)
(* the entry of the call, one metric computation (lines 99-101, each reads *)
(* the instance when it runs), the combination of lines 104-118, or the    *)
(* return; steps of different callers interleave freely.                   *)
(***************************************************************************)
ConcJobDescriptions == {None, Str(f_python), Str(f_aDot)}

ConcTexts == {Str(<<>>), Str(f_python), Str(f_sections \o f_java)}

\* rank_resume is entered with its argument (line 91)
Call(c, text) ==
    /\ callers[c].pc = "idle"
    /\ callers' = [callers EXCEPT ![c] = [IdleCaller EXCEPT !.pc = "running",
                                                            !.text = text]]
    /\ UNCHANGED <<generator, job_description, keyword_list, pc, op, resume_text,
                   scores_arg, result, resume_content, environment, main>>

\* a metric step that also keeps the keywords of the resume in the instance
MetricOverwriting(c, m) ==
    LET me == callers[c]
        cq == evaluate_content_quality(job_description, me.text)
        value == CASE m = "keyword_relevance" ->
                          score_keyword_relevance(keyword_list, me.text)
                   [] m = "formatting" -> evaluate_formatting(me.text)
                   [] m = "content_quality" -> cq.value
    IN  /\ me.pc = "running"
        /\ m \notin me.done
        /\ callers' =
               IF m = "content_quality" /\ cq.raised # "none"
               THEN [callers EXCEPT ![c].pc = "failed",
                                    ![c].result = [NoResult EXCEPT !.raised = cq.raised]]
               ELSE [callers EXCEPT ![c].done = me.done \cup {m},
                                    ![c].scores[m] = value]
        /\ keyword_list' = IF m = "keyword_relevance"
                           THEN extract_keywords(me.text)
                           ELSE keyword_list
        /\ UNCHANGED <<generator, job_description, pc, op, resume_text, scores_arg, result,
                       resume_content, environment, main>>

\* one of lines 99, 100, 101: the metric m of caller c, computed from the
\* caller's text and the instance as it is now; an exception ends the call
Metric(c, m) ==
    LET me == callers[c]
        cq == evaluate_content_quality(job_description, me.text)
        value == CASE m = "keyword_relevance" ->
                          score_keyword_relevance(keyword_list, me.text)
                   [] m = "formatting" -> evaluate_formatting(me.text)
                   [] m = "content_quality" -> cq.value
    IN  /\ me.pc = "running"
        /\ m \notin me.done
        /\ callers' =
               IF m = "content_quality" /\ cq.raised # "none"
               THEN [callers EXCEPT ![c].pc = "failed",
                                    ![c].result = [NoResult EXCEPT !.raised = cq.raised]]
               ELSE [callers EXCEPT ![c].done = me.done \cup {m},
                                    ![c].scores[m] = value]
        /\ UNCHANGED <<generator, job_description, keyword_list, pc, op, resume_text,
                       scores_arg, result, resume_content, environment, main>>

\* lines 104-118: the weighted sum, the feedback and the returned dictionary
Combine(c) ==
    LET me == callers[c]
    IN  /\ me.pc = "running"
        /\ me.done = MetricKeys
        /\ callers' = [callers EXCEPT
               ![c].pc = "returned",
               ![c].result = [NoResult EXCEPT
                                 !.scores = me.scores,
                                 !.overall_score = overall_of(me.scores),
                                 !.feedback = generate_feedback(me.scores)]]
        /\ UNCHANGED <<generator, job_description, keyword_list, pc, op, resume_text,
                       scores_arg, result, resume_content, environment, main>>

\* the caller takes its result or its exception and may call again
CallerReturn(c) ==
    /\ callers[c].pc \in {"returned", "failed"}
    /\ callers' = [callers EXCEPT ![c] = IdleCaller]
    /\ UNCHANGED <<generator, job_description, keyword_list, pc, op, resume_text,
                   scores_arg, result, resume_content, environment, main>>

InitConcurrent ==
    /\ Init
    /\ job_description \in ConcJobDescriptions

NextConcurrent ==
    \/ \E c \in Callers, text \in ConcTexts : Call(c, text)
    \/ \E c \in Callers, m \in MetricKeys : Metric(c, m)
    \/ \E c \in Callers : Combine(c)
    \/ \E c \in Callers : CallerReturn(c)

SpecConcurrent == InitConcurrent /\ [][NextConcurrent]_vars

(***************************************************************************)
(* score_resume of utils/scoring_utils.py: a function of the rendered      *)
(* resume alone.                                                           *)
(***************************************************************************)
\* the substrings score_resume looks for (lines 11, 13, 15, 26, 32)
m_WorkExperience == <<"W","o","r","k"," ","E","x","p","e","r","i","e","n","c","e">>
m_Education == <<"E","d","u","c","a","t","i","o","n">>
m_Skills == <<"S","k","i","l","l","s">>
m_Python == <<"P","y","t","h","o","n">>
m_MachineLearning == <<"M","a","c","h","i","n","e"," ","L","e","a","r","n","i","n","g">>
m_TeamLeadership == <<"T","e","a","m"," ","L","e","a","d","e","r","s","h","i","p">>
m_Phone == <<"P","h","o","n","e">>
m_Email == <<"E","m","a","i","l">>

\* len(resume_content.split()) of line 19: the words of the head, and one
\* word more for each "z " after the first, which may join the head's last word
word_count(content) ==
    IF content.filler = 0
    THEN Len(Split(content.head))
    ELSE Len(Split(content.head \o <<"z">>)) + content.filler - 1

\* sub in resume_content: no substring looked for holds a "z", so it can
\* only occur in the head
content_has(content, sub) == Contains(content.head, sub)

\* Rule 1 (lines 11-16)
section_points(content) ==
    (IF content_has(content, m_WorkExperience) THEN 20 ELSE 0)
    + (IF content_has(content, m_Education) THEN 20 ELSE 0)
    + (IF content_has(content, m_Skills) THEN 20 ELSE 0)

\* Rule 2 with the band open at both ends
length_points_exclusive(count) ==
    IF 400 < count /\ count < 800 THEN 20 ELSE -10

\* Rule 2 (lines 19-23)
length_points(count) ==
    IF 400 <= count /\ count <= 800 THEN 20 ELSE -10

\* Rule 3 giving 10 for each keyword
keyword_points_ten(content) ==
    (IF content_has(content, m_Python) THEN 10 ELSE 0)
    + (IF content_has(content, m_MachineLearning) THEN 10 ELSE 0)
    + (IF content_has(content, m_TeamLeadership) THEN 10 ELSE 0)

\* Rule 3 (lines 26-29)
keyword_points(content) ==
    (IF content_has(content, m_Python) THEN 5 ELSE 0)
    + (IF content_has(content, m_MachineLearning) THEN 5 ELSE 0)
    + (IF content_has(content, m_TeamLeadership) THEN 5 ELSE 0)

\* Rule 4 taking 20 for each missing contact
contact_points_each(content) ==
    (IF ~content_has(content, m_Phone) THEN -20 ELSE 0)
    + (IF ~content_has(content, m_Email) THEN -20 ELSE 0)

\* Rule 4 (lines 32-33)
contact_points(content) ==
    IF ~content_has(content, m_Phone) \/ ~content_has(content, m_Email)
    THEN -20
    ELSE 0

\* the score before line 36
score_sum(content) ==
    section_points(content) + length_points(word_count(content))
    + keyword_points(content) + contact_points(content)

\* score_resume without line 36
score_resume_unclamped(content) == score_sum(content)

\* score_resume (lines 1-38)
score_resume(content) == Max({0, Min({100, score_sum(content)})})

\* The documents score_resume is called with: any of the substrings, and
\* words that differ from them in case, each followed by a blank, in a fixed
\* order; then filler up to a number of words.
d_workExperience == <<"w","o","r","k"," ","e","x","p","e","r","i","e","n","c","e">>
d_phone == <<"p","h","o","n","e">>
d_email == <<"e","m","a","i","l">>

HeadPieces ==
    <<m_WorkExperience, d_workExperience, m_Education, m_Skills, m_Python,
      m_MachineLearning, m_TeamLeadership, m_Phone, d_phone, m_Email, d_email>>

RECURSIVE HeadOf(_, _)
HeadOf(chosen, i) ==
    IF i > Len(HeadPieces)
    THEN <<>>
    ELSE (IF i \in chosen THEN HeadPieces[i] \o <<" ">> ELSE <<>>)
         \o HeadOf(chosen, i + 1)

Heads == {HeadOf(chosen, 1) : chosen \in SUBSET (1 .. Len(HeadPieces))}

WordTotals == {50, 399, 400, 650, 800, 801}

ResumeContents ==
    {[head |-> h, filler |-> total - Len(Split(h))] :
        h \in Heads, total \in WordTotals}

\* a call of score_resume(resume_content)
ScoreResume(content) ==
    /\ pc = "idle"
    /\ pc' = "returned"
    /\ op' = "score_resume"
    /\ resume_content' = content
    /\ result' = [NoResult EXCEPT !.value = Rat(score_resume(content), 1)]
    /\ UNCHANGED <<generator, callers, environment, main, job_description, keyword_list,
                   resume_text, scores_arg>>

NextHeuristic ==
    \/ \E content \in ResumeContents : ScoreResume(content)
    \/ Return

SpecHeuristic == InitNoReference /\ [][NextHeuristic]_vars

(***************************************************************************)
(* main of main.py: the steps of its try block (lines 19-76) in order and  *)
(* its two handlers (lines 78-81).  The environment is what the steps read *)
(* from outside: data/sample_input.json, the variable LLM_API_KEY and the  *)
(* template directory.                                                     *)
(***************************************************************************)
RequiredFields == {"personal_information", "work_experience", "education"}

\* data/sample_input.json: absent, not JSON, or a dictionary with some of the
\* required fields whose email, phone number, work experience entries and
\* graduation date are valid or not
InputFiles ==
    {NoFile, [NoFile EXCEPT !.kind = "not json"]}
    \cup [kind : {"data"}, fields : SUBSET RequiredFields, email : BOOLEAN,
          phone : BOOLEAN, experience : BOOLEAN, graduation : BOOLEAN]

ApiKeys == {None, Str(<<>>), Str(<<"k">>)}

Environments ==
    [file : InputFiles, api_key : ApiKeys, template_dir : BOOLEAN]

\* parse_resume_input of generators/input_parser.py (lines 88-158): the
\* exception it raises for the loaded data
parse_resume_input(data) ==
    IF \/ data.fields # RequiredFields
       \/ ~data.email
       \/ ~data.phone
       \/ ~data.experience
       \/ ~data.graduation
    THEN "ValidationError"
    ELSE "none"

\* ResumeGenerator.generate on the dictionary parse_resume_input returns:
\* it has no 'personal_information' and its 'education' has no 'name', so
\* parse_input raises at lines 33-34 of generators/resume_generator.py, and
\* generate raises it again (line 134)
generate_raises == "ValueError"

\* export_to_pdf of generators/pdf_exporter.py called with the rendered
\* string: resume_data['name'] of line 29 raises
export_to_pdf_raises == "TypeError"

\* score_resume called with two arguments (line 75)
score_resume_call_raises == "TypeError"

MainSteps ==
    <<"parse", "generate", "verify", "llm", "render", "export", "rank",
      "display", "score">>

\* the exception the step raises in the environment, or "none"
main_step_raises(step, env) ==
    CASE step = "parse" ->
             IF env.file.kind = "missing" THEN "FileNotFoundError"
             ELSE IF env.file.kind = "not json" THEN "JSONDecodeError"
             ELSE parse_resume_input(env.file)
      [] step = "generate" -> generate_raises
      [] step = "verify" -> "none"
      [] step = "llm" -> \* Step 3 (lines 45-50): without LLM_API_KEY line 49 raises
                         IF Truthy(env.api_key) THEN "none" ELSE "ValueError"
      [] step = "render" -> IF env.template_dir THEN "none" ELSE "FileNotFoundError"
      [] step = "export" -> export_to_pdf_raises
      [] step = "rank" -> "none"
      [] step = "display" -> "none"
      [] step = "score" -> score_resume_call_raises

\* main is started; no instance of the service exists before line 67
InitMain ==
    /\ job_description = None
    /\ keyword_list = <<>>
    /\ pc = "idle"
    /\ op = "none"
    /\ resume_text = None
    /\ scores_arg = NoScores
    /\ result = NoResult
    /\ callers = IdleCallers
    /\ resume_content = NoContent
    /\ environment \in Environments
    /\ main = [MainNotRun EXCEPT !.pc = "parse"]
    /\ generator = NoGenerator

\* one step of the try block: it completes and main goes on to the next, or
\* it raises and control passes to the handlers
MainStep ==
    LET raised == main_step_raises(main.pc, environment)
        i == CHOOSE k \in 1..Len(MainSteps) : MainSteps[k] = main.pc
    IN  /\ \E k \in 1..Len(MainSteps) : MainSteps[k] = main.pc
        /\ main' =
               IF raised # "none"
               THEN [main EXCEPT !.pc = "except", !.exception = raised]
               ELSE [main EXCEPT
                        !.pc = IF i = Len(MainSteps) THEN "done" ELSE MainSteps[i + 1],
                        !.ranked = main.ranked \/ main.pc = "rank"]
        /\ UNCHANGED <<generator, job_description, keyword_list, pc, op, resume_text,
                       scores_arg, result, callers, resume_content, environment>>

\* the handlers of lines 78-81 log the exception, and main ends
MainExcept ==
    /\ main.pc = "except"
    /\ main' = [main EXCEPT
                   !.pc = "done",
                   !.logged = IF main.exception = "ValidationError"
                              THEN "error" ELSE "exception"]
    /\ UNCHANGED <<generator, job_description, keyword_list, pc, op, resume_text,
                   scores_arg, result, callers, resume_content, environment>>

NextMain ==
    \/ MainStep
    \/ MainExcept

SpecMain == InitMain /\ [][NextMain]_vars

(***************************************************************************)
(* ResumeGenerator of generators/resume_generator.py: one object, whose    *)
(* generate (lines 124-134) runs the three steps, and whose steps a caller *)
(* may also call one by one.  Of a dictionary only its keys matter here,   *)
(* and of a rendered resume only whether it is the empty string.           *)
(***************************************************************************)
PersonalFields == {"name", "email", "phone_number"}

EducationFields == {"institution_name", "degree", "graduation_date"}

\* user inputs: any of the fields under their own section, and a name put
\* under 'education'
UserInputs ==
    [personal_information : SUBSET PersonalFields,
     education : SUBSET (EducationFields \cup {"name"})]

GenerateSteps == <<"parse_input", "render_resume", "export_to_pdf">>

\* parse_input (lines 22-66) builds parsed_data: each required field is in
\* one of the two sections (lines 32-34) and the lookups of lines 37-45 find
\* theirs; otherwise it raises ValueError
parse_input_succeeds(user_input) ==
    /\ \A field \in PersonalFields \cup EducationFields :
           field \in user_input.personal_information \/ field \in user_input.education
    /\ PersonalFields \subseteq user_input.personal_information
    /\ EducationFields \subseteq user_input.education

\* what the template gives: it is not found (line 77), or it renders the
\* empty string or a text (line 88)
RenderOutcomes == {"not found", "empty", "text"}

\* what pdf_exporter does when called (line 115): it writes the file or fails
ExportOutcomes == {"written", "fails"}

\* the checks of export_to_pdf before the exporter is called (lines 99-112)
export_checks_pass(g) ==
    /\ g.final_resume # "None"
    /\ g.final_resume # "empty"
    /\ g.parsed_data # "None"

\* __init__ (lines 14-20)
InitGenerator ==
    /\ job_description = None
    /\ keyword_list = <<>>
    /\ pc = "idle"
    /\ op = "none"
    /\ resume_text = None
    /\ scores_arg = NoScores
    /\ result = NoResult
    /\ callers = IdleCallers
    /\ resume_content = NoContent
    /\ environment = NoEnvironment
    /\ main = MainNotRun
    /\ generator \in {[NoGenerator EXCEPT !.pc = "ready", !.user_input = user_input] :
                         user_input \in UserInputs}

\* a step has ended without an exception: within generate the next step
\* follows, and the last step or a step called alone returns
AfterStep(g) ==
    LET i == CHOOSE k \in 1..Len(GenerateSteps) : GenerateSteps[k] = g.pc
    IN  IF g.via = "generate" /\ i < Len(GenerateSteps)
        THEN GenerateSteps[i + 1]
        ELSE "returned"

\* generate is called (line 124)
Generate ==
    /\ generator.pc = "ready"
    /\ generator' = [generator EXCEPT
           !.pc = "parse_input", !.via = "generate", !.steps = <<>>,
           !.raised = "none", !.raised_in = "none", !.exporter_called = FALSE]
    /\ UNCHANGED <<job_description, keyword_list, pc, op, resume_text, scores_arg,
                   result, callers, resume_content, environment, main>>

\* one of the three methods is called by itself
CallStep(step) ==
    /\ generator.pc = "ready"
    /\ generator' = [generator EXCEPT
           !.pc = step, !.via = "direct", !.steps = <<>>,
           !.raised = "none", !.raised_in = "none", !.exporter_called = FALSE]
    /\ UNCHANGED <<job_description, keyword_list, pc, op, resume_text, scores_arg,
                   result, callers, resume_content, environment, main>>

\* parse_input (lines 22-66): parsed_data is assigned at line 36, once every
\* lookup has succeeded
ParseInput ==
    LET g == [generator EXCEPT !.steps = Append(generator.steps, "parse_input")]
    IN  /\ generator.pc = "parse_input"
        /\ generator' =
               IF parse_input_succeeds(g.user_input)
               THEN [g EXCEPT !.parsed_data = "dict", !.pc = AfterStep(generator)]
               ELSE [g EXCEPT !.pc = "except", !.raised = "ValueError",
                              !.raised_in = "parse_input"]
        /\ UNCHANGED <<job_description, keyword_list, pc, op, resume_text, scores_arg,
                       result, callers, resume_content, environment, main>>

\* render_resume (lines 79-91): the template is selected and rendered with
\* parsed_data; render(None) raises, and every exception becomes ValueError
RenderResume(outcome) ==
    LET g == [generator EXCEPT !.steps = Append(generator.steps, "render_resume")]
    IN  /\ generator.pc = "render_resume"
        /\ generator' =
               IF outcome = "not found" \/ g.parsed_data = "None"
               THEN [g EXCEPT !.pc = "except", !.raised = "ValueError",
                              !.raised_in = "render_resume"]
               ELSE [g EXCEPT !.final_resume = outcome, !.pc = AfterStep(generator)]
        /\ UNCHANGED <<job_description, keyword_list, pc, op, resume_text, scores_arg,
                       result, callers, resume_content, environment, main>>

\* export_to_pdf (lines 93-122): after the checks the exporter is called
\* (line 115); every exception becomes ValueError
ExportToPdf(outcome) ==
    LET g == [generator EXCEPT !.steps = Append(generator.steps, "export_to_pdf")]
        called == export_checks_pass(g)
    IN  /\ generator.pc = "export_to_pdf"
        /\ generator' =
               IF called /\ outcome = "written"
               THEN [g EXCEPT !.exporter_called = TRUE, !.pc = AfterStep(generator)]
               ELSE [g EXCEPT !.exporter_called = called, !.pc = "except",
                              !.raised = "ValueError", !.raised_in = "export_to_pdf"]
        /\ UNCHANGED <<job_description, keyword_list, pc, op, resume_text, scores_arg,
                       result, callers, resume_content, environment, main>>

\* generate passes the exception of a step over the steps that remain
GenerateExceptContinuing ==
    /\ generator.pc = "except"
    /\ generator' = [generator EXCEPT
                        !.pc = AfterStep([generator EXCEPT !.pc = generator.raised_in])]
    /\ UNCHANGED <<job_description, keyword_list, pc, op, resume_text, scores_arg,
                   result, callers, resume_content, environment, main>>

\* the exception of a step leaves the call: generate logs and raises it again
\* (lines 132-134), no later step runs
GenerateExcept ==
    /\ generator.pc = "except"
    /\ generator' = [generator EXCEPT !.pc = "failed"]
    /\ UNCHANGED <<job_description, keyword_list, pc, op, resume_text, scores_arg,
                   result, callers, resume_content, environment, main>>

\* the caller has the return or the exception; the object stays as it is
GenerateReturn ==
    /\ generator.pc \in {"returned", "failed"}
    /\ generator' = [generator EXCEPT !.pc = "ready"]
    /\ UNCHANGED <<job_description, keyword_list, pc, op, resume_text, scores_arg,
                   result, callers, resume_content, environment, main>>

NextGenerator ==
    \/ Generate
    \/ \E step \in {"parse_input", "render_resume", "export_to_pdf"} : CallStep(step)
    \/ ParseInput
    \/ \E outcome \in RenderOutcomes : RenderResume(outcome)
    \/ \E outcome \in ExportOutcomes : ExportToPdf(outcome)
    \/ GenerateExcept
    \/ GenerateReturn

SpecGenerator == InitGenerator /\ [][NextGenerator]_vars

(***************************************************************************)
(* Properties.                                                             *)
(***************************************************************************)
Returned(name) == pc = "returned" /\ op = name /\ result.raised = "none"

\* C1: whenever rank_resume returns, ten times its overall_score equals
\* 4*keyword_relevance + 3*formatting + 3*content_quality of the scores in the
\* same result, with no clamping of the sum.
C1_OverallIsWeightedSum ==
    Returned("rank_resume") =>
        RatScale(10, result.overall_score) =
            RatAdd(RatAdd(RatScale(4, result.scores.keyword_relevance),
                          RatScale(3, result.scores.formatting)),
                   RatScale(3, result.scores.content_quality))

\* a rank_resume result with keyword_relevance above 100 and an overall score
\* above 100
C1_Witness ==
    /\ Returned("rank_resume")
    /\ ~RatLT(result.scores.keyword_relevance, 101)
    /\ ~RatLT(result.overall_score, 101)

\* the scores a returned feedback was computed from
FeedbackInput == IF op = "generate_feedback" THEN scores_arg ELSE result.scores

\* C2: in the feedback of generate_feedback and of rank_resume, each metric key
\* is present iff its score is strictly below 70 / 80 / 75, and when no score is
\* below its threshold the only key is "overall".
C2_FeedbackKeysIffBelowThreshold ==
    (Returned("generate_feedback") \/ Returned("rank_resume")) =>
        LET sc == FeedbackInput
            keys == DOMAIN result.feedback
        IN  /\ "keyword_relevance" \in keys <=> sc.keyword_relevance.n < 70 * sc.keyword_relevance.d
            /\ "formatting" \in keys <=> sc.formatting.n < 80 * sc.formatting.d
            /\ "content_quality" \in keys <=> sc.content_quality.n < 75 * sc.content_quality.d
            /\ (/\ sc.keyword_relevance.n >= 70 * sc.keyword_relevance.d
                /\ sc.formatting.n >= 80 * sc.formatting.d
                /\ sc.content_quality.n >= 75 * sc.content_quality.d)
               => keys = {"overall"}

\* generate_feedback called with every score exactly at its threshold
C2_Witness ==
    /\ Returned("generate_feedback")
    /\ scores_arg = [keyword_relevance |-> Rat(70, 1), formatting |-> Rat(80, 1),
                     content_quality |-> Rat(75, 1)]
    /\ DOMAIN result.feedback = {"overall"}

InRange(a) == a.n >= 0 /\ a.n <= 100 * a.d

\* C3: every score and the overall score of a rank_resume result lies in
\* [0, 100].
C3_ScoresInRange ==
    Returned("rank_resume") =>
        /\ InRange(result.scores.keyword_relevance)
        /\ InRange(result.scores.formatting)
        /\ InRange(result.scores.content_quality)
        /\ InRange(result.overall_score)

\* the words of s, as the pairs <<first, last>> of the maximal runs of
\* non-whitespace characters
WordSpans(s) ==
    LET starts == {a \in 1..Len(s) :
                      s[a] \notin Whitespace /\ (a = 1 \/ s[a - 1] \in Whitespace)}
        last(a) == CHOOSE b \in a..Len(s) :
                      /\ b = Len(s) \/ s[b + 1] \in Whitespace
                      /\ \A i \in a..b : s[i] \notin Whitespace
    IN  {<<a, last(a)>> : a \in starts}

WordAt(s, ab) == Lower(SubSeq(s, ab[1], ab[2]))

Elements(l) == {l[i] : i \in 1..Len(l)}

\* C4: with a non-empty keyword list, score_keyword_relevance returns
\* 100 * M / len(keyword_list), M the number of lowercased whitespace-separated
\* candidate words, punctuation kept, that are in the list, one per occurrence,
\* and the result is not cut off at 100.
C4_KeywordRelevanceFormula ==
    (Returned("score_keyword_relevance") /\ keyword_list # <<>>) =>
        LET M == Cardinality({ab \in WordSpans(resume_text.chars) :
                                WordAt(resume_text.chars, ab) \in Elements(keyword_list)})
        IN  result.value = Rat(100 * M, Len(keyword_list))

\* a score above 100 for a candidate that also holds a word which only its
\* punctuation keeps out of the keyword list
C4_Witness ==
    /\ Returned("score_keyword_relevance")
    /\ ~RatLT(result.value, 101)
    /\ \E ab \in WordSpans(resume_text.chars) :
          /\ WordAt(resume_text.chars, ab) \notin Elements(keyword_list)
          /\ Strip(WordAt(resume_text.chars, ab)) \in Elements(keyword_list)

\* C5: every token of a keyword list built by extract_keywords is lowercase,
\* has no leading or trailing punctuation and is longer than 2 characters.
C5_KeywordTokensNormalised ==
    LET ok(l) == \A i \in 1..Len(l) :
                    /\ Lower(l[i]) = l[i]
                    /\ Len(l[i]) > 2
                    /\ l[i][1] \notin Punctuation
                    /\ l[i][Len(l[i])] \notin Punctuation
    IN  /\ ok(keyword_list)
        /\ Returned("extract_keywords") => ok(result.keywords)

RECURSIVE DedupFrom(_, _, _)
DedupFrom(l, i, seen) ==
    IF i > Len(l)
    THEN <<>>
    ELSE IF l[i] \in seen
         THEN DedupFrom(l, i + 1, seen)
         ELSE <<l[i]>> \o DedupFrom(l, i + 1, seen \cup {l[i]})

\* l with only the first occurrence of each token
Dedup(l) == DedupFrom(l, 1, {})

\* C6 as stated: score_keyword_relevance gives the same value with the keyword
\* list as built and with the list deduplicated.
C6_DuplicatesNoEffect ==
    Returned("score_keyword_relevance") =>
        result.value = score_keyword_relevance(Dedup(keyword_list), resume_text)

\* C6 as amended: duplicates in the keyword list leave the match count unchanged
\* and enter the score only through the divisor len(keyword_list): the score
\* times len(keyword_list) equals the deduplicated score times the deduplicated
\* length.
C6_DuplicatesOnlyInDivisor ==
    Returned("score_keyword_relevance") =>
        RatScale(Len(keyword_list), result.value) =
            RatScale(Len(Dedup(keyword_list)),
                     score_keyword_relevance(Dedup(keyword_list), resume_text))

\* a non-zero score against a keyword list that repeats a token
C6_Witness ==
    /\ Returned("score_keyword_relevance")
    /\ Dedup(keyword_list) # keyword_list
    /\ result.value.n > 0

\* C7: extract_keywords of the empty string or of an absent text is the empty
\* list, construction without a job description leaves keyword_list empty, and
\* score_keyword_relevance with an empty keyword list returns 0 without raising.
C7_EmptyKeywordsScoreZero ==
    /\ job_description = None => keyword_list = <<>>
    /\ (pc = "returned" /\ op = "extract_keywords" /\ resume_text \in {None, Str(<<>>)})
          => (result.raised = "none" /\ result.keywords = <<>>)
    /\ (pc = "returned" /\ op = "score_keyword_relevance" /\ keyword_list = <<>>)
          => (result.raised = "none" /\ result.value = Rat(0, 1))

\* score_keyword_relevance has returned for a candidate with words, on an
\* instance constructed without a job description
C7_Witness ==
    /\ Returned("score_keyword_relevance")
    /\ job_description = None
    /\ keyword_list = <<>>
    /\ WordSpans(resume_text.chars) # {}

\* s with piece put in after its first pos characters
InsertAt(s, pos, piece) == SubSeq(s, 1, pos) \o piece \o SubSeq(s, pos + 1, Len(s))

\* C8: evaluate_formatting(T) is 25 times the number of the four section names
\* that are substrings of lowercased T, so one of 0, 25, 50, 75, 100; and putting
\* a section name that T lacks anywhere into T does not lower the score.
C8_FormattingStepsMonotone ==
    Returned("evaluate_formatting") =>
        LET T == resume_text.chars
            present == {i \in 1..4 : Contains(Lower(T), sections[i])}
        IN  /\ result.value = Rat(25 * Cardinality(present), 1)
            /\ result.value \in {Rat(0, 1), Rat(25, 1), Rat(50, 1), Rat(75, 1), Rat(100, 1)}
            /\ \A i \in (1..4) \ present : \A pos \in 0..Len(T) :
                  LET more == evaluate_formatting(Str(InsertAt(T, pos, sections[i])))
                  IN  more.n * result.value.d >= result.value.n * more.d

\* three of the four names found, one of them written with a capital, one lacking
C8_Witness ==
    /\ Returned("evaluate_formatting")
    /\ result.value = Rat(75, 1)
    /\ Lower(resume_text.chars) # resume_text.chars

\* C9: on an instance constructed without a job description,
\* evaluate_content_quality returns 50 for every candidate text and does not
\* raise.
C9_NoJobDescriptionGivesFifty ==
    (pc = "returned" /\ op = "evaluate_content_quality" /\ job_description = None) =>
        (result.raised = "none" /\ result.value = Rat(50, 1))

\* evaluate_content_quality has returned 50 for a candidate with terms, with no
\* job description
C9_Witness ==
    /\ Returned("evaluate_content_quality")
    /\ job_description = None
    /\ tfidf_tokens(resume_text.chars) # <<>>
    /\ result.value = Rat(50, 1)

\* C10: with a job description present, when the candidate or the job
\* description (or both) has no term after tokenization,
\* evaluate_content_quality returns 0 and does not raise.
C10_NoTermsGivesZero ==
    (/\ pc = "returned" /\ op = "evaluate_content_quality"
     /\ Truthy(job_description)
     /\ \/ tfidf_tokens(resume_text.chars) = <<>>
        \/ tfidf_tokens(job_description.chars) = <<>>)
    => (result.raised = "none" /\ result.value = Rat(0, 1))

\* C11: rank_resume raises no exception, whatever the candidate string and
\* whatever the job description (a string or absent): it always returns a
\* result.
C11_RankResumeNeverRaises ==
    (pc = "returned" /\ op = "rank_resume") => result.raised = "none"

C20_NoReferenceMode ==
    (pc = "returned" /\ op = "rank_resume" /\ job_description = None) =>
        /\ result.raised = "none"
        /\ result.scores.keyword_relevance = Rat(0, 1)
        /\ result.scores.content_quality = Rat(50, 1)
        /\ RatScale(10, result.overall_score)
              = RatAdd(Rat(150, 1), RatScale(3, result.scores.formatting))
        /\ result.overall_score.n <= 45 * result.overall_score.d
        /\ {"keyword_relevance", "content_quality"} \subseteq DOMAIN result.feedback
        /\ "overall" \notin DOMAIN result.feedback

\* the best result without a job description: all four sections found, overall 45
C20_Witness ==
    /\ Returned("rank_resume")
    /\ job_description = None
    /\ result.scores.formatting = Rat(100, 1)
    /\ result.overall_score = Rat(45, 1)

\* C13: a job description that is neither a string nor absent makes the
\* construction signal InvalidInputError, and a candidate text that is not a
\* string makes every scoring call signal InvalidInputError, with no result.
C13_InvalidInputSignalled ==
    /\ job_description.kind \notin {"str", "None"}
          => (pc = "failed" /\ result.raised = "InvalidInputError")
    /\ (/\ pc = "returned"
        /\ op \in {"rank_resume", "score_keyword_relevance", "evaluate_formatting",
                   "evaluate_content_quality"}
        /\ NotStr(resume_text))
          => result.raised = "InvalidInputError"

\* the keyword list __init__ builds for a job description
FreshKeywordList(jd) == IF Truthy(jd) THEN extract_keywords(jd) ELSE <<>>

\* C14: no call of rank_resume, score_keyword_relevance, evaluate_formatting,
\* evaluate_content_quality, generate_feedback or extract_keywords changes
\* job_description or keyword_list, which are all the instance holds; so after
\* any sequence of calls the instance is as constructed and rank_resume returns
\* for a text what a first call on a new instance returns for it.
C14_CallsLeaveInstanceUnchanged ==
    /\ [][job_description' = job_description /\ keyword_list' = keyword_list]_vars
    /\ [](keyword_list = FreshKeywordList(job_description))
    /\ []((pc = "returned" /\ op = "rank_resume") =>
             result = rank_resume(job_description,
                                  FreshKeywordList(job_description), resume_text))

\* rank_resume has returned a score that depends on the keyword list
C14_Witness ==
    /\ Returned("rank_resume")
    /\ keyword_list # <<>>
    /\ result.scores.keyword_relevance.n > 0

\* C15: whatever the interleaving of the callers' steps and the order of a
\* call's three metric computations, a caller that has its result (or its
\* exception) has what rank_resume gives for its own text on the instance
\* as constructed, that is, what it gets running alone.
C15_InterleavedCallsIndependent ==
    \A c \in Callers :
        callers[c].pc \in {"returned", "failed"} =>
            callers[c].result =
                rank_resume(job_description, FreshKeywordList(job_description),
                            callers[c].text)

\* one caller has returned while another, ranking a different text that
\* scores differently, is between two of its metric computations
C15_Witness ==
    \E c, d \in Callers :
        /\ callers[c].pc = "returned"
        /\ callers[d].pc = "running"
        /\ callers[d].done # {} /\ callers[d].done # MetricKeys
        /\ callers[c].text # callers[d].text
        /\ keyword_list # <<>>
        /\ callers[c].result #
               rank_resume(job_description, keyword_list, callers[d].text)

\* the number of the substrings subs that occur in the document
PresentCount(content, subs) ==
    Cardinality({i \in 1..Len(subs) : Contains(content.head, subs[i])})

\* the number of whitespace-separated words of a document whose head is empty
\* or ends with whitespace
WordTotal(content) ==
    Cardinality({a \in 1..Len(content.head) :
                    /\ content.head[a] \notin Whitespace
                    /\ (a = 1 \/ content.head[a - 1] \in Whitespace)})
    + content.filler

Clamped(x) == IF x < 0 THEN 0 ELSE IF x > 100 THEN 100 ELSE x

\* the section, length and keyword points of a document
BonusPoints(content) ==
    20 * PresentCount(content, <<m_WorkExperience, m_Education, m_Skills>>)
    + (IF WordTotal(content) \in 400..800 THEN 20 ELSE -10)
    + 5 * PresentCount(content, <<m_Python, m_MachineLearning, m_TeamLeadership>>)

\* C16: score_resume returns the clamp to [0,100] of 20 for each of 'Work
\* Experience', 'Education', 'Skills' present, 20 for a word count in 400..800
\* (both ends included) and -10 otherwise, 5 for each of 'Python', 'Machine
\* Learning', 'Team Leadership' present, and the contact penalty; a text with
\* the three sections, 650 words, 'Python', 'Phone' and 'Email' and neither of
\* the other two keywords scores 85.
C16_HeuristicScoreFormula ==
    Returned("score_resume") =>
        LET content == resume_content
            contact == IF PresentCount(content, <<m_Phone, m_Email>>) = 2
                       THEN 0 ELSE -20
        IN  /\ result.value = Rat(Clamped(BonusPoints(content) + contact), 1)
            /\ ( /\ PresentCount(content, <<m_WorkExperience, m_Education, m_Skills>>) = 3
                 /\ WordTotal(content) = 650
                 /\ PresentCount(content, <<m_Python, m_Phone, m_Email>>) = 3
                 /\ PresentCount(content, <<m_MachineLearning, m_TeamLeadership>>) = 0
                 => result.value = Rat(85, 1) )

\* score_resume has scored the 650-word text of the example
C16_Witness ==
    /\ Returned("score_resume")
    /\ PresentCount(resume_content, <<m_WorkExperience, m_Education, m_Skills>>) = 3
    /\ WordTotal(resume_content) = 650
    /\ PresentCount(resume_content, <<m_Python, m_Phone, m_Email>>) = 3
    /\ PresentCount(resume_content, <<m_MachineLearning, m_TeamLeadership>>) = 0
    /\ result.value = Rat(85, 1)

\* the document with every occurrence of sub put in lower case: the same
\* words, without the substring
Hidden(content, sub) ==
    LET h == content.head
        covered(i) == \E j \in 1..i :
                          /\ i <= j + Len(sub) - 1
                          /\ j + Len(sub) - 1 <= Len(h)
                          /\ SubSeq(h, j, j + Len(sub) - 1) = sub
    IN  [content EXCEPT
            !.head = [i \in 1..Len(h) |-> IF covered(i) THEN LowerChar(h[i]) ELSE h[i]]]

\* C17: the contact penalty is one -20, taken when 'Phone' is absent, when
\* 'Email' is absent or when both are, and not taken when both are present;
\* texts that differ only in which of the two are missing have the same sum
\* before the clamp, 20 below that of the text with both.
C17_ContactPenaltyOnce ==
    Returned("score_resume") =>
        LET content == resume_content
            missing == 2 - PresentCount(content, <<m_Phone, m_Email>>)
            noPhone == Hidden(content, m_Phone)
            noEmail == Hidden(content, m_Email)
            neither == Hidden(noPhone, m_Email)
        IN  /\ result.value =
                   Rat(Clamped(BonusPoints(content) - (IF missing = 0 THEN 0 ELSE 20)), 1)
            /\ missing = 0 =>
                   /\ score_sum(content) = BonusPoints(content)
                   /\ score_sum(noPhone) = score_sum(content) - 20
                   /\ score_sum(noEmail) = score_sum(content) - 20
                   /\ score_sum(neither) = score_sum(content) - 20

\* score_resume has scored a text with 'Phone' and without 'Email', whose
\* penalty shows in the result
C17_Witness ==
    /\ Returned("score_resume")
    /\ Contains(resume_content.head, m_Phone)
    /\ ~Contains(resume_content.head, m_Email)
    /\ result.value = Rat(BonusPoints(resume_content) - 20, 1)
    /\ result.value.n > 0

\* C18: score_resume returns an integer from 0 to 100; for a document of
\* fewer than 400 or more than 800 words without 'Phone', the result is the
\* section and keyword points less 10 and less 20, and 0 when that is negative.
C18_HeuristicScoreClamped ==
    Returned("score_resume") =>
        LET content == resume_content
            sum == 20 * PresentCount(content, <<m_WorkExperience, m_Education, m_Skills>>)
                   + 5 * PresentCount(content, <<m_Python, m_MachineLearning, m_TeamLeadership>>)
                   - 10 - 20
        IN  /\ result.value.d = 1
            /\ result.value.n \in 0..100
            /\ (WordTotal(content) \notin 400..800 /\ ~Contains(content.head, m_Phone))
                   => result.value.n = IF sum < 0 THEN 0 ELSE sum

\* score_resume has returned 0 for a 50-word document without 'Phone' whose
\* one section leaves the sum negative
C18_Witness ==
    /\ Returned("score_resume")
    /\ WordTotal(resume_content) = 50
    /\ ~Contains(resume_content.head, m_Phone)
    /\ PresentCount(resume_content, <<m_WorkExperience, m_Education, m_Skills>>) = 1
    /\ PresentCount(resume_content, <<m_Python, m_MachineLearning, m_TeamLeadership>>) = 0
    /\ result.value = Rat(0, 1)

\* C19: a run of main with a valid input file and the template directory in
\* place, in which only the LLM step cannot be done, no LLM_API_KEY being set,
\* still reaches the ranking step (lines 65-68) before it ends.
C19_RankingReachedWithoutLLM ==
    ( /\ main.pc = "done"
      /\ environment.file.kind = "data"
      /\ parse_resume_input(environment.file) = "none"
      /\ environment.template_dir
      /\ ~Truthy(environment.api_key) )
        => main.ranked

\* C21: the feedback of generate_feedback, called directly or by rank_resume,
\* is never empty, has only keys among keyword_relevance, formatting,
\* content_quality and overall, and has "overall" only as its single key.
C21_FeedbackNeverEmpty ==
    (Returned("generate_feedback") \/ Returned("rank_resume")) =>
        LET keys == DOMAIN result.feedback
        IN  /\ keys # {}
            /\ keys \subseteq {"keyword_relevance", "formatting", "content_quality",
                               "overall"}
            /\ "overall" \in keys => Cardinality(keys) = 1

\* generate_feedback has returned the single "overall" entry for scores that
\* are all above their thresholds
C21_Witness ==
    /\ Returned("generate_feedback")
    /\ scores_arg.keyword_relevance.n > 70 * scores_arg.keyword_relevance.d
    /\ scores_arg.formatting.n > 80 * scores_arg.formatting.d
    /\ scores_arg.content_quality.n > 75 * scores_arg.content_quality.d
    /\ result.feedback = [k \in {"overall"} |-> FeedbackText.overall]

\* C22: an instance constructed with the empty string as job description has
\* the empty keyword list, and for every candidate text its rank_resume
\* returns what an instance constructed with no job description returns, with
\* keyword_relevance 0 and content_quality 50; it never raises, as the TF-IDF
\* comparison would for a text without terms.
C22_EmptyJobDescriptionAsNone ==
    job_description = Str(<<>>) =>
        /\ keyword_list = <<>>
        /\ (pc = "returned" /\ op = "rank_resume") =>
               /\ result = rank_resume(None, FreshKeywordList(None), resume_text)
               /\ result.raised = "none"
               /\ result.scores.keyword_relevance = Rat(0, 1)
               /\ result.scores.content_quality = Rat(50, 1)
        /\ (pc = "returned" /\ op = "evaluate_content_quality") =>
               (result.raised = "none" /\ result.value = Rat(50, 1))

\* rank_resume has returned on an instance with the empty job description
\* for a text without terms, for which a TF-IDF fit would have raised
C22_Witness ==
    /\ job_description = Str(<<>>)
    /\ Returned("rank_resume")
    /\ tfidf_tokens(resume_text.chars) = <<>>
    /\ result.scores.content_quality = Rat(50, 1)

\* C23: the sum score_resume forms before the clamp lies between -30 and 95,
\* so the value returned is a multiple of 5, at most 95, equal to the sum
\* when that is not negative (the upper clamp changes nothing) and 0 otherwise.
C23_HeuristicScoreMultipleOfFive ==
    Returned("score_resume") =>
        LET content == resume_content
            sum == BonusPoints(content)
                   - (IF Contains(content.head, m_Phone) /\ Contains(content.head, m_Email)
                      THEN 0 ELSE 20)
        IN  /\ sum >= -30 /\ sum <= 95
            /\ result.value.d = 1
            /\ result.value.n % 5 = 0
            /\ result.value.n <= 95
            /\ sum >= 0 => result.value.n = sum
            /\ sum < 0 => result.value.n = 0

\* score_resume has returned the largest value, 95, for a text in the word
\* band with every section, every keyword and both contacts
C23_Witness ==
    /\ Returned("score_resume")
    /\ PresentCount(resume_content,
                    <<m_WorkExperience, m_Education, m_Skills, m_Python,
                      m_MachineLearning, m_TeamLeadership, m_Phone, m_Email>>) = 8
    /\ WordTotal(resume_content) \in 400..800
    /\ result.value = Rat(95, 1)

\* C24: generate runs parse_input, render_resume and export_to_pdf in that
\* order; once a step has raised no later step runs and the call fails with
\* that exception, and a call that returns has run all three.  final_resume
\* is set only if parsed_data is set, and the PDF exporter is called only when
\* parsed_data and a non-empty final_resume exist.
C24_GenerateStepsInOrder ==
    LET g == generator
        n == Len(g.steps)
    IN  /\ g.via = "generate" =>
               /\ n <= Len(GenerateSteps)
               /\ \A i \in 1..n : g.steps[i] = GenerateSteps[i]
               /\ g.pc = "returned" => (g.steps = GenerateSteps /\ g.raised = "none")
               /\ g.raised # "none" =>
                      (g.pc \in {"except", "failed", "ready"} /\ g.steps[n] = g.raised_in)
               /\ g.pc = "failed" => g.raised # "none"
        /\ g.final_resume # "None" => g.parsed_data # "None"
        /\ g.exporter_called => (g.parsed_data = "dict" /\ g.final_resume = "text")

\* generate has failed in export_to_pdf on an empty rendered resume, after
\* parse_input and render_resume, without the exporter being called
C24_Witness ==
    /\ generator.via = "generate"
    /\ generator.pc = "failed"
    /\ generator.steps = GenerateSteps
    /\ generator.parsed_data = "dict"
    /\ generator.final_resume = "empty"
    /\ ~generator.exporter_called

====
